---- MODULE Spec2Model ----
(***************************************************************************)
(* Model of hypyp/analyses.py: the inter-brain connectivity pipeline.      *)
(*                                                                         *)
(* Arrays are nested sequences, indexed from 1 where Python indexes from   *)
(* 0.  Samples are symbolic: a raw sample is the record of its own         *)
(* coordinates, every numerical primitive (multitaper, filter, Hilbert,    *)
(* abs, angle, the metrics, nanmean) is an uninterpreted constructor       *)
(* around its arguments.  Two tensors that are equal in the model are      *)
(* therefore equal for every numerical content of the recording.           *)
(***************************************************************************)
EXTENDS Integers, Sequences, FiniteSets, TLC

VARIABLES call, pc, out, log

vars == <<call, pc, out, log>>

(* ------------------------------ bounds --------------------------------- *)
MaxEpochs == 2
MaxCh == 2
MaxSamp == 2
MaxFreqs == 2

(* lowest frequency used in the discrete specs, e.g. [8, 10] *)
MinFreq == 8

(* ------------------------- outcomes and events ------------------------- *)
(* an exception: its class, its message (the parts joined by +) and the   *)
(* line that raises it                                                   *)
NoExc == [cls |-> "", msg |-> <<>>, line |-> 0]

Ret(v, lg) == [kind |-> "return", value |-> v, exc |-> NoExc, log |-> lg]

Raise(c, m, l, lg) ==
  [kind |-> "raise", value |-> <<>>, exc |-> [cls |-> c, msg |-> m, line |-> l], log |-> lg]

Ev(name, a) == [ev |-> name, arg |-> a]

(* ------------------------------- inputs -------------------------------- *)
(* one subject's stream, shape (n_epochs, n_channels, n_times) *)
Stream(n, E, C, S) ==
  [e \in 1..E |-> [c \in 1..C |-> [s \in 1..S |->
      [subj |-> n, epoch |-> e, ch |-> c, samp |-> s]]]]

Data(E0, E1, C, S) == <<Stream(0, E0, C, S), Stream(1, E1, C, S)>>

(* a Python str object: its value, and whether it is the interned object   *)
(* that a literal of the same value denotes                                *)
Str(v, i) == [value |-> v, interned |-> i]

MetricNames == {"envelope", "power", "plv", "ccorr", "coh", "imagcoh", "proj"}

Bands == [alpha |-> <<8, 12>>, beta |-> <<12, 20>>]

(* ----------------------------- numpy helpers --------------------------- *)
(* mutant: the upper end of the range is included *)
np_arange_Inclusive(lo, hi) == [i \in 1..(IF hi >= lo THEN hi - lo + 1 ELSE 0) |-> lo + (i - 1)]

np_arange(lo, hi) == [i \in 1..(IF hi > lo THEN hi - lo ELSE 0) |-> lo + (i - 1)]

Shape3(x) == <<Len(x), Len(x[1]), Len(x[1][1])>>

Shape5(t) ==
  <<Len(t), Len(t[1]), Len(t[1][1]), Len(t[1][1][1]), Len(t[1][1][1][1])>>

(* np.array(nested lists of scalars, ndim deep): shape read off the nesting *)
RECURSIVE ShapeTo(_, _)
ShapeTo(t, ndim) ==
  IF ndim = 0 THEN <<>>
  ELSE IF Len(t) = 0 THEN <<0>>
  ELSE <<Len(t)>> \o ShapeTo(t[1], ndim - 1)

np_array(nested, ndim) == [shape |-> ShapeTo(nested, ndim), data |-> nested]

(* elementwise map over a 5-d array *)
Map5(t, tag) ==
  [n \in 1..Len(t) |-> [e \in 1..Len(t[n]) |-> [c \in 1..Len(t[n][e]) |->
     [f \in 1..Len(t[n][e][c]) |-> [s \in 1..Len(t[n][e][c][f]) |->
        [pre |-> tag, z |-> t[n][e][c][f][s]]]]]]]

(* ------------------------- external primitives ------------------------- *)
tfr_array_multitaper(x, freqs) ==
  [e \in 1..Len(x) |-> [c \in 1..Len(x[e]) |-> [f \in 1..Len(freqs) |->
     [s \in 1..Len(x[e][c]) |->
        [src |-> x[e][c][s], freq |-> <<freqs[f]>>, via |-> "multitaper"]]]]]

filter_data(x, sfreq, lo, hi) ==
  [e \in 1..Len(x) |-> [c \in 1..Len(x[e]) |-> [s \in 1..Len(x[e][c]) |->
     [src |-> x[e][c][s], freq |-> <<lo, hi>>, via |-> "filter"]]]]

hilbert(t) ==
  [n \in 1..Len(t) |-> [e \in 1..Len(t[n]) |-> [c \in 1..Len(t[n][e]) |->
     [s \in 1..Len(t[n][e][c]) |->
        [src |-> t[n][e][c][s].src, freq |-> t[n][e][c][s].freq, via |-> "hilbert"]]]]]

(* ------------------------- compute_single_freq ------------------------- *)
(* np_ragged: what np.array does with two arrays of unequal length         *)
(* ("object": an object array of the two, "ValueError": it raises)         *)
compute_single_freq(data, freq_range, np_ragged) ==
  LET n_samp == Shape3(data[1])[3]
      freqs == np_arange(freq_range[1], freq_range[2])
      tfr == [subject \in 1..2 |-> tfr_array_multitaper(data[subject], freqs)]
      lg == [subject \in 1..2 |->
               Ev("tfr_array_multitaper",
                  [subject |-> subject - 1, sfreq |-> n_samp, freqs |-> freqs])]
      called == <<Ev("compute_single_freq", freq_range)>>
  IN IF Len(tfr[1]) = Len(tfr[2]) \/ np_ragged = "object"
       THEN Ret(tfr, called \o lg)
       ELSE Raise("ValueError", <<"inhomogeneous shape">>, 225, called \o lg)

(* -------------------------- compute_freq_bands ------------------------- *)
RECURSIVE BandLoop(_, _, _, _)
BandLoop(data, n_samp, bands, k) ==
  IF k > Len(bands) THEN [sig |-> <<>>, lg |-> <<>>]
  ELSE LET freq_band == bands[k][2]
           filtered == [subject \in 1..2 |->
                          filter_data(data[subject], n_samp, freq_band[1], freq_band[2])]
           hilb == hilbert(filtered)
           rest == BandLoop(data, n_samp, bands, k + 1)
       IN [sig |-> <<hilb>> \o rest.sig,
           lg |-> <<Ev("filter_data", [subject |-> 0, sfreq |-> n_samp, band |-> freq_band]),
                    Ev("filter_data", [subject |-> 1, sfreq |-> n_samp, band |-> freq_band]),
                    Ev("hilbert", [band |-> freq_band])>> \o rest.lg]

(* np.moveaxis(a, [0], [3]) on a 5-d array *)
moveaxis_0_3(a) ==
  [n \in 1..Len(a[1]) |-> [e \in 1..Len(a[1][n]) |-> [c \in 1..Len(a[1][n][e]) |->
     [b \in 1..Len(a) |-> [s \in 1..Len(a[b][n][e][c]) |-> a[b][n][e][c][s]]]]]]

compute_freq_bands(data, freq_bands) ==
  IF Shape3(data[1])[1] # Shape3(data[2])[1]
    THEN Raise("AssertionError", <<>>, 250, <<Ev("compute_freq_bands", freq_bands)>>)
    ELSE LET n_epoch == Shape3(data[1])[1]
             n_ch == Shape3(data[1])[2]
             n_samp == Shape3(data[1])[3]
             loop == BandLoop(data, n_samp, freq_bands, 1)
             complex_signal == moveaxis_0_3(loop.sig)
         IN IF Shape5(complex_signal) = <<2, n_epoch, n_ch, Len(freq_bands), n_samp>>
              THEN Ret(complex_signal, <<Ev("compute_freq_bands", freq_bands)>> \o loop.lg)
              ELSE Raise("AssertionError", <<>>, 266,
                         <<Ev("compute_freq_bands", freq_bands)>> \o loop.lg)

(* ---------------------------- metric library --------------------------- *)
(* a call fn(X, Y) of a metric function on two 1-d sequences *)
Metric(fn, X, Y) == [fn |-> fn, X |-> X, Y |-> Y]

(* ------------------------------ compute_sync --------------------------- *)
(* `mode is '<literal>'`: object identity with the interned literal *)
Is(mode, literal) == mode.value = literal /\ mode.interned

(* the nested comprehension of the epoch-wise branch *)
EpochWise(fn, values, n_epoch, n_ch, n_freq) ==
  np_array([freq \in 1..n_freq |-> [epoch \in 1..n_epoch |-> [ch_j \in 1..n_ch |->
     [ch_i \in 1..n_ch |->
        Metric(fn, values[1][epoch][ch_i][freq], values[2][epoch][ch_j][freq])]]]], 4)

(* np.concatenate(values[n], axis=2): the arrays values[n][0], values[n][1], *)
(* ... of shape (n_ch, n_freq, n_samp), joined along their last axis        *)
(* mutant: the epochs are joined last to first *)
RECURSIVE ConcatFrom_Reversed(_, _, _, _)
ConcatFrom_Reversed(v, c, f, e) ==
  IF e > Len(v) THEN <<>> ELSE ConcatFrom_Reversed(v, c, f, e + 1) \o v[e][c][f]

RECURSIVE ConcatFrom(_, _, _, _)
ConcatFrom(v, c, f, e) ==
  IF e > Len(v) THEN <<>> ELSE v[e][c][f] \o ConcatFrom(v, c, f, e + 1)

np_concatenate_axis2(v) ==
  [c \in 1..Len(v[1]) |-> [f \in 1..Len(v[1][c]) |-> ConcatFrom(v, c, f, 1)]]

Strands(values) == [n \in 1..2 |-> np_concatenate_axis2(values[n])]

(* the nested comprehension of the concatenated branch *)
Concatenated(fn, strands, n_ch, n_freq) ==
  np_array([freq \in 1..n_freq |-> [ch_j \in 1..n_ch |-> [ch_i \in 1..n_ch |->
     Metric(fn, strands[1][ch_i][freq], strands[2][ch_j][freq])]]], 3)

(* mutant: the epoch axis is kept *)
nanmean_axis1_Keep(result) == result

(* np.nanmean(result, axis=1) of a 4-d array *)
nanmean_axis1(result) ==
  [shape |-> <<result.shape[1], result.shape[3], result.shape[4]>>,
   data |-> [f \in 1..result.shape[1] |-> [a \in 1..result.shape[3] |->
              [b \in 1..result.shape[4] |->
                 [fn |-> "nanmean",
                  of |-> [e \in 1..result.shape[2] |-> result.data[f][e][a][b]]]]]]]

(* the metric calls of a nested comprehension of depth d, in the order the *)
(* comprehension makes them (outermost index slowest)                      *)
RECURSIVE Evaluations(_, _), EvaluationsFrom(_, _, _)
Evaluations(t, d) ==
  IF d = 0 THEN <<Ev("metric", t)>> ELSE EvaluationsFrom(t, d, 1)
EvaluationsFrom(t, d, i) ==
  IF i > Len(t) THEN <<>> ELSE Evaluations(t[i], d - 1) \o EvaluationsFrom(t, d, i + 1)

(* mutant: the last elif is an else *)
Branch_Default(mode) ==
  IF Is(mode, "envelope") THEN "envelope"
  ELSE IF Is(mode, "power") THEN "power"
  ELSE IF Is(mode, "plv") THEN "plv"
  ELSE IF Is(mode, "ccorr") THEN "ccorr"
  ELSE IF Is(mode, "proj") THEN "proj"
  ELSE IF Is(mode, "imagcoh") THEN "imagcoh"
  ELSE "coh"

(* branch selected by the if/elif chain; "" is the else branch *)
Branch(mode) ==
  IF Is(mode, "envelope") THEN "envelope"
  ELSE IF Is(mode, "power") THEN "power"
  ELSE IF Is(mode, "plv") THEN "plv"
  ELSE IF Is(mode, "ccorr") THEN "ccorr"
  ELSE IF Is(mode, "proj") THEN "proj"
  ELSE IF Is(mode, "imagcoh") THEN "imagcoh"
  ELSE IF Is(mode, "coh") THEN "coh"
  ELSE ""

(* values = ... of the selected branch *)
PreTransform(branch, complex_signal) ==
  CASE branch = "envelope" -> Map5(complex_signal, "abs")
    [] branch = "power" -> Map5(complex_signal, "abs**2")
    [] branch = "plv" -> Map5(complex_signal, "unit")
    [] branch = "ccorr" -> Map5(complex_signal, "angle")
    [] OTHER -> complex_signal

(* the metric function of the selected branch *)
MetricFn(branch) ==
  CASE branch = "envelope" -> "_corrcoef"
    [] branch = "power" -> "_corrcoef"
    [] branch = "plv" -> "_plv"
    [] branch = "ccorr" -> "circcorrcoef"
    [] branch = "proj" -> "_proj_power_corr"
    [] branch = "imagcoh" -> "_icoh"
    [] branch = "coh" -> "_coh"

UnsupportedError(mode, line, called) ==
  Raise("NameError", <<"Sychrony metric ", mode.value, " not supported.">>, line, called)

(* the branch `if epoch_wise:` *)
SyncEpochWise(complex_signal, mode, time_resolved, called) ==
  LET n_epoch == Shape5(complex_signal)[2]
      n_ch == Shape5(complex_signal)[3]
      n_freq == Shape5(complex_signal)[4]
      branch == Branch(mode)
  IN IF branch = ""
       THEN UnsupportedError(mode, 144, called)
       ELSE LET values == PreTransform(branch, complex_signal)
                result == EpochWise(MetricFn(branch), values, n_epoch, n_ch, n_freq)
            IN Ret(IF time_resolved THEN nanmean_axis1(result) ELSE result,
                   called \o Evaluations(result.data, 4))

(* the branch `else:` *)
SyncConcatenated(complex_signal, mode, called) ==
  LET n_ch == Shape5(complex_signal)[3]
      n_freq == Shape5(complex_signal)[4]
      branch == Branch(mode)
  IN IF branch = ""
       THEN UnsupportedError(mode, 203, called)
       ELSE LET values == PreTransform(branch, complex_signal)
                strands == Strands(values)
                result == Concatenated(MetricFn(branch), strands, n_ch, n_freq)
            IN Ret(result, called \o Evaluations(result.data, 3))

SyncCalled(mode, epoch_wise, time_resolved) ==
  <<Ev("compute_sync",
       [mode |-> mode, epoch_wise |-> epoch_wise, time_resolved |-> time_resolved])>>

(* mutant: the time_resolved flag also selects the epoch-wise branch *)
compute_sync_FlagLeak(complex_signal, mode, epoch_wise, time_resolved) ==
  IF epoch_wise \/ time_resolved
    THEN SyncEpochWise(complex_signal, mode, time_resolved,
                       SyncCalled(mode, epoch_wise, time_resolved))
    ELSE SyncConcatenated(complex_signal, mode, SyncCalled(mode, epoch_wise, time_resolved))

compute_sync(complex_signal, mode, epoch_wise, time_resolved) ==
  IF epoch_wise
    THEN SyncEpochWise(complex_signal, mode, time_resolved,
                       SyncCalled(mode, epoch_wise, time_resolved))
    ELSE SyncConcatenated(complex_signal, mode, SyncCalled(mode, epoch_wise, time_resolved))

(* the local variable `values` of simple_corr after the if/elif *)
BuildValues(data, frequencies, np_ragged) ==
  IF frequencies.type = "list"
    THEN compute_single_freq(data, frequencies.items, np_ragged)
  ELSE IF frequencies.type = "dict"
    THEN compute_freq_bands(data, frequencies.items)
  ELSE [kind |-> "unbound", value |-> <<>>, exc |-> NoExc, log |-> <<>>]

(* line 68: reading `values`, then the call of compute_sync *)
ForwardToSync(values, mode, epoch_wise, time_resolved) ==
  IF values.kind = "raise" THEN values
  ELSE IF values.kind = "unbound"
    THEN Raise("UnboundLocalError",
               <<"local variable 'values' referenced before assignment">>, 68, <<>>)
  ELSE LET result == compute_sync(values.value, mode, epoch_wise, time_resolved)
       IN [result EXCEPT !.log = values.log \o result.log]

(* mutant: the epoch counts are not compared *)
simple_corr_NoCheck(data, frequencies, mode, epoch_wise, time_resolved, np_ragged) ==
  ForwardToSync(BuildValues(data, frequencies, np_ragged), mode, epoch_wise, time_resolved)

(* mutant: the two flags are forwarded in the wrong order *)
simple_corr_SwapFlags(data, frequencies, mode, epoch_wise, time_resolved, np_ragged) ==
  IF Shape3(data[1])[1] # Shape3(data[2])[1]
    THEN Raise("AssertionError", <<"Two streams much have the same lengths.">>, 59, <<>>)
    ELSE ForwardToSync(BuildValues(data, frequencies, np_ragged), mode,
                       time_resolved, epoch_wise)

(* ------------------------------- simple_corr --------------------------- *)
simple_corr(data, frequencies, mode, epoch_wise, time_resolved, np_ragged) ==
  IF Shape3(data[1])[1] # Shape3(data[2])[1]
    THEN Raise("AssertionError", <<"Two streams much have the same lengths.">>, 59, <<>>)
    ELSE ForwardToSync(BuildValues(data, frequencies, np_ragged), mode,
                       epoch_wise, time_resolved)

(* ------------------------------ state machine -------------------------- *)
Dims == {d \in [E0 : 1..MaxEpochs, E1 : 1..MaxEpochs, C : 1..MaxCh, S : 1..MaxSamp] : TRUE}

ListSpecs == {[type |-> "list", items |-> <<MinFreq, MinFreq + n>>] : n \in 1..MaxFreqs}

DictSpecs ==
  {[type |-> "dict", items |-> <<<<"alpha", Bands.alpha>>>>],
   [type |-> "dict", items |-> <<<<"beta", Bands.beta>>>>],
   [type |-> "dict", items |-> <<<<"alpha", Bands.alpha>>, <<"beta", Bands.beta>>>>],
   [type |-> "dict", items |-> <<<<"beta", Bands.beta>>, <<"alpha", Bands.alpha>>>>]}

TupleSpecs == {[type |-> "tuple", items |-> <<MinFreq, MinFreq + 2>>]}

Modes == {Str(v, i) : v \in MetricNames \cup {"notametric", "PLV"}, i \in BOOLEAN}

NoMode == Str("", TRUE)

NoOut == [kind |-> "none", value |-> <<>>, exc |-> NoExc]

MkCall(fn, d, fr, sig, m, ew, tr) ==
  [fn |-> fn, data |-> Data(d.E0, d.E1, d.C, d.S), frequencies |-> fr, signal |-> sig,
   mode |-> m, epoch_wise |-> ew, time_resolved |-> tr]

(* the analytic signal a builder returns for the spec fr *)
Analytic(d, fr) ==
  IF fr.type = "list"
    THEN compute_single_freq(Data(d.E0, d.E0, d.C, d.S), fr.items, "ValueError").value
    ELSE compute_freq_bands(Data(d.E0, d.E0, d.C, d.S), fr.items).value

InitSimpleCorr(specs) ==
  \E d \in Dims, fr \in specs, m \in Modes, ew \in BOOLEAN, tr \in BOOLEAN :
     call = MkCall("simple_corr", d, fr, <<>>, m, ew, tr)

InitComputeSync(specs) ==
  \E d \in Dims, fr \in specs, m \in Modes, ew \in BOOLEAN, tr \in BOOLEAN :
     /\ d.E1 = d.E0
     /\ call = MkCall("compute_sync", d, fr, Analytic(d, fr), m, ew, tr)

Init ==
  /\ pc = "start"
  /\ out = NoOut
  /\ log = <<>>
  /\ \/ InitSimpleCorr(ListSpecs)
     \/ InitSimpleCorr(DictSpecs)
     \/ InitSimpleCorr(TupleSpecs)
     \/ InitComputeSync(ListSpecs)
     \/ InitComputeSync(DictSpecs)
     \/ \E d \in Dims, fr \in ListSpecs :
           call = MkCall("compute_single_freq", d, fr, <<>>, NoMode, FALSE, FALSE)
     \/ \E d \in Dims, fr \in DictSpecs :
           call = MkCall("compute_freq_bands", d, fr, <<>>, NoMode, FALSE, FALSE)

Finish(r) ==
  /\ pc' = "done"
  /\ out' = [kind |-> r.kind, value |-> r.value, exc |-> r.exc]
  /\ log' = r.log
  /\ UNCHANGED call

Call_simple_corr ==
  /\ pc = "start" /\ call.fn = "simple_corr"
  /\ \E np_ragged \in {"object", "ValueError"} :
       Finish(simple_corr(call.data, call.frequencies, call.mode, call.epoch_wise,
                          call.time_resolved, np_ragged))

Call_compute_sync ==
  /\ pc = "start" /\ call.fn = "compute_sync"
  /\ Finish(compute_sync(call.signal, call.mode, call.epoch_wise, call.time_resolved))

Call_compute_single_freq ==
  /\ pc = "start" /\ call.fn = "compute_single_freq"
  /\ \E np_ragged \in {"object", "ValueError"} :
       Finish(compute_single_freq(call.data, call.frequencies.items, np_ragged))

Call_compute_freq_bands ==
  /\ pc = "start" /\ call.fn = "compute_freq_bands"
  /\ Finish(compute_freq_bands(call.data, call.frequencies.items))

Next ==
  \/ Call_simple_corr
  \/ Call_compute_sync
  \/ Call_compute_single_freq
  \/ Call_compute_freq_bands

Spec == Init /\ [][Next]_vars

TypeOK ==
  /\ pc \in {"start", "done"}
  /\ out.kind \in {"none", "return", "raise"}
  /\ (pc = "start") = (out.kind = "none")

(* ------------------------- conditions of the spec ---------------------- *)
(* Python's exception hierarchy, as far as these classes go:               *)
(* UnboundLocalError is a subclass of NameError                            *)
IsA(cls, base) == cls = base \/ (cls = "UnboundLocalError" /\ base = "NameError")

(* InputMismatch: one of the two epoch-count assertions fails *)
InputMismatch(o) ==
  o.kind = "raise" /\ IsA(o.exc.cls, "AssertionError") /\ o.exc.line \in {59, 250}

(* ShapeMismatch: the post-condition assertion of the band builder fails *)
ShapeMismatch(o) ==
  o.kind = "raise" /\ IsA(o.exc.cls, "AssertionError") /\ o.exc.line = 266

(* UnsupportedMetric: a NameError whose message is about a metric *)
UnsupportedMetric(o) ==
  /\ o.kind = "raise"
  /\ IsA(o.exc.cls, "NameError")
  /\ Len(o.exc.msg) = 3
  /\ o.exc.msg[1] = "Sychrony metric "
  /\ o.exc.msg[3] = " not supported."

Count(lg, name) == Cardinality({i \in 1..Len(lg) : lg[i].ev = name})

Primitives == {"tfr_array_multitaper", "filter_data", "hilbert"}

Done(fn) == pc = "done" /\ call.fn = fn

EpochsDiffer == Len(call.data[1]) # Len(call.data[2])

(* the raw sample and the frequency label behind an element that reaches a *)
(* metric function, with or without a pre-transform around it             *)
Src(el) == IF "pre" \in DOMAIN el THEN el.z.src ELSE el.src
Freq(el) == IF "pre" \in DOMAIN el THEN el.z.freq ELSE el.freq

(* the metric call behind the result at frequency position f, channel      *)
(* positions <<a, b>> (and epoch e where the result has epochs)            *)
Entry(f, e, a, b) ==
  IF call.epoch_wise /\ ~call.time_resolved THEN out.value.data[f][e][a][b]
  ELSE IF call.epoch_wise THEN out.value.data[f][a][b].of[e]
  ELSE out.value.data[f][a][b]

SyncReturned == Done("compute_sync") /\ out.kind = "return"

SigShape == Shape5(call.signal)

(* --------------------------------- C1 ---------------------------------- *)
(* C1: when the two streams given to simple_corr have different epoch      *)
(* counts, the call fails with InputMismatch (the assertion of line 59)    *)
(* and nothing has been invoked before: no builder, no primitive, no       *)
(* compute_sync, whatever the frequency spec, metric and flags.            *)
C1_MismatchFailsFirst ==
  (Done("simple_corr") /\ EpochsDiffer)
     => /\ InputMismatch(out)
        /\ out.exc.line = 59
        /\ log = <<>>

C1_Witness ==
  /\ Done("simple_corr") /\ EpochsDiffer
  /\ call.frequencies.type = "list"
  /\ call.mode.value = "notametric"
  /\ InputMismatch(out)

(* --------------------------------- C2 ---------------------------------- *)
(* C2: for a metric name outside the seven supported ones compute_sync     *)
(* fails with UnsupportedMetric, the message carries the name, in the      *)
(* epoch-wise branch (line 144) and the concatenated one (line 203), for   *)
(* both values of time_resolved, and no metric function has been called.   *)
C2_UnknownMetricFailsFast ==
  (Done("compute_sync") /\ call.mode.value \notin MetricNames)
     => /\ UnsupportedMetric(out)
        /\ out.exc.cls = "NameError"
        /\ out.exc.msg[2] = call.mode.value
        /\ out.exc.line = (IF call.epoch_wise THEN 144 ELSE 203)
        /\ Count(log, "metric") = 0

C2_Witness ==
  /\ Done("compute_sync")
  /\ call.mode = Str("notametric", TRUE)
  /\ ~call.epoch_wise /\ call.time_resolved
  /\ UnsupportedMetric(out)

(* --------------------------------- C3 ---------------------------------- *)
(* C3: for a metric string whose value is one of the seven names, however  *)
(* the caller produced the string, compute_sync takes the branch of that   *)
(* metric and does not fail with UnsupportedMetric.                        *)
C3_SupportedValueIsDispatched ==
  (Done("compute_sync") /\ call.mode.value \in MetricNames)
     => /\ ~UnsupportedMetric(out)
        /\ out.kind = "return"
        /\ \A i \in 1..Len(log) :
              log[i].ev = "metric" => log[i].arg.fn = MetricFn(call.mode.value)

C5_FirstAxisIsSubject0 ==
  SyncReturned
     => \A f \in 1..SigShape[4], e \in 1..SigShape[2],
           a \in 1..SigShape[3], b \in 1..SigShape[3] :
           LET m == Entry(f, e, a, b)
           IN /\ \A s \in DOMAIN m.X : Src(m.X[s]).subj = 0 /\ Src(m.X[s]).ch = a
              /\ \A s \in DOMAIN m.Y : Src(m.Y[s]).subj = 1 /\ Src(m.Y[s]).ch = b

(* --------------------------------- C6 ---------------------------------- *)
(* C6: with epoch_wise false the outcome of compute_sync (and of           *)
(* simple_corr) is the same for time_resolved true and false: equal        *)
(* results or the same failure, for supported and unsupported metrics.     *)
SameOutcome(r) == r.kind = out.kind /\ r.exc = out.exc /\ r.value = out.value

C6_TimeResolvedIgnored ==
  /\ (Done("compute_sync") /\ ~call.epoch_wise)
        => SameOutcome(compute_sync(call.signal, call.mode, FALSE, ~call.time_resolved))
  /\ (Done("simple_corr") /\ ~call.epoch_wise)
        => \A np_ragged \in {"object", "ValueError"} :
              SameOutcome(simple_corr(call.data, call.frequencies, call.mode, FALSE,
                                      ~call.time_resolved, np_ragged))

C6_Witness ==
  /\ SyncReturned
  /\ ~call.epoch_wise /\ call.time_resolved
  /\ SigShape[2] = 2
  /\ call.mode = Str("plv", TRUE)

(* --------------------------------- C7 ---------------------------------- *)
(* C7: each builder called on its own fails with InputMismatch when the    *)
(* epoch counts differ, before any multitaper, filter or Hilbert call.     *)
C7_BuildersCheckEpochs ==
  ((Done("compute_single_freq") \/ Done("compute_freq_bands")) /\ EpochsDiffer)
     => /\ InputMismatch(out)
        /\ \A i \in 1..Len(log) : log[i].ev \notin Primitives

(* --------------------------------- C8 ---------------------------------- *)
(* C8: the frequency axis of the analytic signal and of the synchrony      *)
(* result has one position per integer f0 .. f1-1 (increasing) for a list  *)
(* spec [f0, f1], and one per band for a dict spec, position n being the   *)
(* n-th band of the mapping; nothing is reordered or dropped.              *)
NFreq(fr) == IF fr.type = "list" THEN fr.items[2] - fr.items[1] ELSE Len(fr.items)

Label(fr, n) == IF fr.type = "list" THEN <<fr.items[1] + (n - 1)>> ELSE fr.items[n][2]

AnalyticAxisOK(sig, fr) ==
  /\ Shape5(sig)[4] = NFreq(fr)
  /\ \A n \in 1..Len(sig), e \in 1..Len(sig[1]), c \in 1..Len(sig[1][1]) :
        /\ Len(sig[n][e][c]) = NFreq(fr)
        /\ \A f \in 1..NFreq(fr) :
              \A s \in 1..Len(sig[n][e][c][f]) : sig[n][e][c][f][s].freq = Label(fr, f)

ResultAxisOK(fr) ==
  /\ out.value.shape[1] = NFreq(fr)
  /\ Len(out.value.data) = NFreq(fr)
  /\ \A f \in 1..NFreq(fr), e \in 1..Len(call.data[1]),
        a \in 1..Len(call.data[1][1]), b \in 1..Len(call.data[1][1]) :
        LET m == Entry(f, e, a, b)
        IN /\ \A s \in DOMAIN m.X : Freq(m.X[s]) = Label(fr, f)
           /\ \A s \in DOMAIN m.Y : Freq(m.Y[s]) = Label(fr, f)

C8_FrequencyAxis ==
  /\ ((Done("compute_single_freq") \/ Done("compute_freq_bands"))
         /\ out.kind = "return" /\ ~EpochsDiffer)
        => AnalyticAxisOK(out.value, call.frequencies)
  /\ ((Done("simple_corr") \/ Done("compute_sync")) /\ out.kind = "return")
        => ResultAxisOK(call.frequencies)

C8_Witness ==
  /\ Done("simple_corr") /\ out.kind = "return"
  /\ call.frequencies.type = "list"
  /\ call.frequencies.items = <<MinFreq, MinFreq + 2>>
  /\ out.value.shape[1] = 2
  /\ Freq(Entry(2, 1, 1, 1).X[1]) = <<MinFreq + 1>>

C8_WitnessBands ==
  /\ Done("simple_corr") /\ out.kind = "return"
  /\ call.frequencies.type = "dict"
  /\ Len(call.frequencies.items) = 2
  /\ call.frequencies.items[1][1] = "beta"
  /\ Freq(Entry(1, 1, 1, 1).X[1]) = Bands.beta

(* --------------------------------- C9 ---------------------------------- *)
(* C9: with epoch_wise false each sequence given to the metric is one      *)
(* subject's, one channel's, one frequency's epochs joined in increasing   *)
(* epoch order: length E*S, sample s of epoch e at position e*S + s        *)
(* (counted from 0); the metric is called F*C*C times.                     *)
JoinedInOrder(X, E, S) ==
  /\ Len(X) = E * S
  /\ \A e \in 1..E, s \in 1..S :
        LET x == X[(e - 1) * S + s]
        IN /\ Src(x).epoch = e /\ Src(x).samp = s
           /\ Src(x).subj = Src(X[1]).subj
           /\ Src(x).ch = Src(X[1]).ch
           /\ Freq(x) = Freq(X[1])

C9_ConcatenatedSequences ==
  (SyncReturned /\ ~call.epoch_wise)
     => LET E == SigShape[2]
            C == SigShape[3]
            F == SigShape[4]
            S == SigShape[5]
        IN /\ Count(log, "metric") = F * C * C
           /\ \A i \in 1..Len(log) :
                 log[i].ev = "metric"
                    => /\ JoinedInOrder(log[i].arg.X, E, S)
                       /\ JoinedInOrder(log[i].arg.Y, E, S)

C9_Witness ==
  /\ SyncReturned /\ ~call.epoch_wise
  /\ SigShape = <<2, 2, 2, 2, 2>>
  /\ Count(log, "metric") = 8
  /\ Len(out.value.data[1][1][1].X) = 4

(* --------------------------------- C10 --------------------------------- *)
(* C10: with equal epoch counts, a frequency spec that is neither a list   *)
(* nor a dict makes simple_corr fail without invoking a builder or         *)
(* compute_sync, and the failure is none of InputMismatch,                 *)
(* UnsupportedMetric, ShapeMismatch; a list invokes compute_single_freq    *)
(* once, a dict compute_freq_bands once, and then compute_sync once with   *)
(* the caller's metric and flags.                                          *)
SyncCalls == {i \in 1..Len(log) : log[i].ev = "compute_sync"}

C10_Dispatch ==
  (Done("simple_corr") /\ ~EpochsDiffer)
     => LET t == call.frequencies.type
        IN /\ t \notin {"list", "dict"}
              => /\ log = <<>>
                 /\ out.kind = "raise"
                 /\ ~InputMismatch(out) /\ ~UnsupportedMetric(out) /\ ~ShapeMismatch(out)
           /\ t \in {"list", "dict"}
              => /\ Count(log, "compute_single_freq") = (IF t = "list" THEN 1 ELSE 0)
                 /\ Count(log, "compute_freq_bands") = (IF t = "dict" THEN 1 ELSE 0)
                 /\ Cardinality(SyncCalls) = 1
                 /\ \A i \in SyncCalls :
                       /\ i > 1
                       /\ log[i].arg = [mode |-> call.mode, epoch_wise |-> call.epoch_wise,
                                        time_resolved |-> call.time_resolved]

C10_Witness ==
  /\ Done("simple_corr") /\ ~EpochsDiffer
  /\ call.frequencies.type = "tuple"
  /\ out.exc.cls = "UnboundLocalError"

C10_WitnessDict ==
  /\ Done("simple_corr") /\ ~EpochsDiffer
  /\ call.frequencies.type = "dict"
  /\ call.epoch_wise /\ ~call.time_resolved
  /\ Count(log, "compute_freq_bands") = 1
  /\ Count(log, "compute_sync") = 1

====
